---- MODULE Spec2Model ----
(***************************************************************************)
(* kvdbd: the Db storage capability (src/src/db/api.rs) and its reference  *)
(* in-memory backend MemDb, a HashMap<Vec<u8>, Vec<u8>>.                    *)
(*                                                                         *)
(* Spec models one handle.  Its state is the map `db` and the order in     *)
(* which HashMap::keys() enumerates it.  That order is unspecified: a      *)
(* method taking &mut self may leave the table in any layout, a method     *)
(* taking &self cannot change it.  So after every mutating call the order  *)
(* is any permutation of the bound keys, and it stays what it is from one  *)
(* read to the next.  The permutation is drawn when keys() is first called *)
(* after a mutation (`order` is None until then), which gives the same     *)
(* observations as drawing it in the mutating call.                        *)
(*                                                                         *)
(* Further specifications cover what lives beside that handle: a           *)
(* ConfigBuilder (BuilderSpec), a Batch being built (BatchSpec), two        *)
(* handles of one driver (TwoSpec), the handle under either read_only      *)
(* setting (RoSpec), and the HTTP tester of src/src/tester.rs against the  *)
(* REST adaptation (TesterSpec).                                           *)
(***************************************************************************)
EXTENDS Integers, Sequences, FiniteSets, TLC

\* ------------------------------------------------------------------ bounds

\* api.rs:53 sets MAX_ITER_KEYS to 1000; the model scales the page limit down
\* so that stores at and above the limit are reachable.
MAX_ITER_KEYS == 2

\* Longest batch handed to apply_batch.
MaxBatchLen == 2

\* Most insert and remove calls made on one Batch.
MaxCalls == 3

\* Byte keys and byte values the caller uses (opaque to the store).  The empty
\* byte string is a legal value.
Keys == {"age", "city", "name"}

Vals == {"", "alan"}

\* ------------------------------------------------------------ value types

\* Option<T>: None, Some(x)
None == <<>>

Some(x) == <<x>>

\* Result<T, &'static str>: Ok(x); a panic unwinds out of the call instead.
Ok(x) == <<"Ok", x>>

Panic == <<"Panic">>

\* Result<T, &'static str>: Err(msg)
Err(msg) == <<"Err", msg>>

\* struct Mutation { op, key, value }: the fields are public, so an Insert
\* whose value is None can be built without Batch::insert.
Mutations ==
    [op : {"Insert"}, key : Keys, value : {None} \cup {Some(v) : v \in Vals}]
        \cup [op : {"Remove"}, key : Keys, value : {None}]

RECURSIVE SeqsUpTo(_, _)
SeqsUpTo(S, n) ==
    IF n = 0 THEN {<<>>}
    ELSE LET shorter == SeqsUpTo(S, n - 1)
         IN  shorter \cup {Append(s, x) : s \in {t \in shorter : Len(t) = n - 1}, x \in S}

\* struct Batch { ops }: every ordered sequence of mutations up to the bound.
Batches == SeqsUpTo(Mutations, MaxBatchLen)

\* ------------------------------------------------- HashMap<Vec<u8>, Vec<u8>>

\* HashMap::new()
EmptyMap == [k \in {} |-> ""]

\* HashMap::get
MapGet(m, k) == IF k \in DOMAIN m THEN Some(m[k]) ELSE None

\* HashMap::insert: creates or replaces the binding of k
MapInsert(m, k, v) == [x \in (DOMAIN m) \cup {k} |-> IF x = k THEN v ELSE m[x]]

\* HashMap::remove: drops the binding of k, if any
MapRemove(m, k) == [x \in (DOMAIN m) \ {k} |-> m[x]]

\* The sequences holding every element of S once.
Perms(S) ==
    {s \in [1..Cardinality(S) -> S] : \A i, j \in 1..Cardinality(S) : s[i] = s[j] => i = j}

\* HashMap::keys(): the orders in which the keys of m may come, given the order
\* ord seen since the last mutation (None: not enumerated since).
MapKeys(ord, m) == IF ord = None THEN Perms(DOMAIN m) ELSE {ord[1]}

\* ------------------------------------------------------ impl Db for MemDb

\* clear() that reports success and drops nothing.
MemDb_clear_KeepsMap(m) == [db |-> m, ret |-> Ok(TRUE)]

\* MemDb::clear
MemDb_clear(m) == [db |-> EmptyMap, ret |-> Ok(TRUE)]

\* get() that finds nothing.
MemDb_get_AlwaysNone(m, key) == Ok(None)

\* MemDb::get
MemDb_get(m, key) ==
    IF MapGet(m, key) = None THEN Ok(None) ELSE Ok(Some(MapGet(m, key)[1]))

\* put() that does not replace a binding that exists.
MemDb_put_KeepsOld(m, key, val) ==
    [db |-> IF key \in DOMAIN m THEN m ELSE MapInsert(m, key, val), ret |-> Ok(TRUE)]

\* MemDb::put
MemDb_put(m, key, val) == [db |-> MapInsert(m, key, val), ret |-> Ok(TRUE)]

\* del() that answers Ok(true) whatever remove() hands back.
MemDb_del_AlwaysTrue(m, key) == [db |-> MapRemove(m, key), ret |-> Ok(TRUE)]

\* del() that reports the binding and leaves it in place.
MemDb_del_KeepsBinding(m, key) ==
    [db |-> m, ret |-> IF MapGet(m, key) = None THEN Ok(FALSE) ELSE Ok(TRUE)]

\* del() that takes a missing key for an error.
MemDb_del_ErrOnMissing(m, key) ==
    [db |-> MapRemove(m, key),
     ret |-> IF MapGet(m, key) = None THEN Err("not found") ELSE Ok(TRUE)]

\* del() that drops every binding.
MemDb_del_DropsAll(m, key) ==
    [db |-> EmptyMap, ret |-> IF MapGet(m, key) = None THEN Ok(FALSE) ELSE Ok(TRUE)]

\* MemDb::del: the result is decided by what HashMap::remove hands back
MemDb_del(m, key) ==
    [db |-> MapRemove(m, key),
     ret |-> IF MapGet(m, key) = None THEN Ok(FALSE) ELSE Ok(TRUE)]

\* The loop of MemDb::iter_keys over self.db.keys(), from the i-th key on.
RECURSIVE IterLoop(_, _, _, _, _)
IterLoop(ord, start_key, i, keys, capture) ==
    IF i > Len(ord) THEN [keys |-> keys, list_end |-> TRUE]
    ELSE LET key == ord[i] IN
         IF ~capture
         THEN IF start_key = None
              THEN IterLoop(ord, start_key, i + 1, Append(keys, key), capture)
              ELSE IF key = start_key[1]
                   THEN IterLoop(ord, start_key, i + 1, keys, TRUE)
                   ELSE IterLoop(ord, start_key, i + 1, keys, capture)
         ELSE LET pushed == Append(keys, key) IN
              IF Len(pushed) >= MAX_ITER_KEYS
              THEN [keys |-> pushed, list_end |-> FALSE]
              ELSE IterLoop(ord, start_key, i + 1, pushed, capture)

\* iter_keys() that pushes the cursor key as well.
MemDb_iter_keys_WithCursor(ord, start_key) ==
    LET r == IterLoop(ord, start_key, 1, <<>>, FALSE) IN
    IF start_key # None /\ \E i \in 1..Len(ord) : ord[i] = start_key[1]
    THEN [keys |-> start_key \o r.keys, list_end |-> r.list_end]
    ELSE r

\* iter_keys() that cuts the page of a scan's first call at the limit and
\* still reports the end of the list.
MemDb_iter_keys_CutsFirstPage(ord, start_key) ==
    LET r == IterLoop(ord, start_key, 1, <<>>, FALSE) IN
    IF start_key = None /\ Len(r.keys) > MAX_ITER_KEYS
    THEN [keys |-> SubSeq(r.keys, 1, MAX_ITER_KEYS), list_end |-> TRUE]
    ELSE r

\* iter_keys() that starts over from the first key when the cursor is not found.
MemDb_iter_keys_RestartsOnMissing(ord, start_key) ==
    IF start_key # None /\ \A i \in 1..Len(ord) : ord[i] # start_key[1]
    THEN IterLoop(ord, None, 1, <<>>, FALSE)
    ELSE IterLoop(ord, start_key, 1, <<>>, FALSE)

\* iter_keys() whose KeyList starts with list_end = false and never sets it.
MemDb_iter_keys_NeverEnds(ord, start_key) ==
    [keys |-> IterLoop(ord, start_key, 1, <<>>, FALSE).keys, list_end |-> FALSE]

\* MemDb::iter_keys: the KeyList for the enumeration order ord
MemDb_iter_keys(ord, start_key) == IterLoop(ord, start_key, 1, <<>>, FALSE)

\* The loop of MemDb::apply_batch, from the i-th mutation on.  unwrap() of an
\* Insert without a value panics and leaves what was applied so far.
RECURSIVE ApplyOps(_, _, _)
ApplyOps(m, ops, i) ==
    IF i > Len(ops) THEN [db |-> m, ret |-> Ok(TRUE), applied |-> i - 1]
    ELSE LET dbm == ops[i] IN
         IF dbm.op = "Insert"
         THEN IF dbm.value = None
              THEN [db |-> m, ret |-> Panic, applied |-> i - 1]
              ELSE ApplyOps(MapInsert(m, dbm.key, dbm.value[1]), ops, i + 1)
         ELSE ApplyOps(MapRemove(m, dbm.key), ops, i + 1)

\* apply_batch() that walks the mutations last to first.
MemDb_apply_batch_Backwards(m, batch) ==
    ApplyOps(m, [i \in 1..Len(batch) |-> batch[Len(batch) + 1 - i]], 1)

\* MemDb::apply_batch
MemDb_apply_batch(m, batch) == ApplyOps(m, batch, 1)

\* ------------------------------------------------------------------ state

VARIABLES
    db,         \* MemDb.db: the bindings
    order,      \* Some(the order self.db.keys() has), None while not yet enumerated
    lastOp,     \* the last call on the handle, what it was given and returned
    scan,       \* the caller's scan: "Fresh", "Paginating" or "Exhausted"
    scanFrom,   \* the start_key the scan's first call was given
    seen,       \* the pages the scan has returned so far, concatenated
    scanCalls,  \* the iter_keys calls the scan has made
    cfg,        \* the Config start_db was handed for the handle
    builder,    \* a ConfigBuilder: its fields path and read_only
    built,      \* Some(the Config its last build() returned), None before
    setArgs,    \* the argument of the last path() and of the last read_only() call
    acc,        \* a Batch under construction: its ops
    accCalls,   \* the insert and remove calls made on it, in call order
    heap,       \* the MemDb boxes the driver has allocated
    handles,    \* per handle name, Some(its box) once start_db returned it
    caller,     \* the handle name the last call was made on
    tester      \* the integration tester: where it is and what it last read

vars ==
    <<db, order, lastOp, scan, scanFrom, seen, scanCalls,
      cfg, builder, built, setArgs, acc, accCalls, heap, handles, caller, tester>>

scanVars == <<scan, scanFrom, seen, scanCalls>>

dbVars == <<db, order, lastOp, scan, scanFrom, seen, scanCalls>>

builderVars == <<builder, built, setArgs>>

batchVars == <<acc, accCalls>>

driverVars == <<heap, handles, caller>>

\* What a call on the one handle leaves alone.
OnlyDb == UNCHANGED <<cfg, builderVars, batchVars, driverVars, tester>>

\* What a call record says of a batch: the keys it mentions, the keys it has
\* an Insert for, per key the value its last mutation of that key asks for, and
\* whether every Insert carries a value (as those Batch::insert builds do).
NoBatch ==
    [mentions |-> {}, inserts |-> {}, effect |-> [k \in Keys |-> None], valued |-> TRUE]

BatchSummary(batch) ==
    LET at(k) == {i \in 1..Len(batch) : batch[i].key = k}
        last(k) == CHOOSE i \in at(k) : \A j \in at(k) : j <= i
    IN  [mentions |-> {k \in Keys : at(k) # {}},
         inserts |-> {k \in Keys : \E i \in at(k) : batch[i].op = "Insert"},
         effect |-> [k \in Keys |->
                        IF at(k) = {} THEN None
                        ELSE IF batch[last(k)].op = "Insert" THEN batch[last(k)].value
                        ELSE None],
         valued |-> \A i \in 1..Len(batch) :
                        batch[i].op = "Insert" => batch[i].value # None]

Call(op, key, val, start, summary, ret) ==
    [op |-> op, key |-> key, val |-> val, start |-> start, batch |-> summary, ret |-> ret]

\* A scan is over a key set that does not change: a mutation ends it, and the
\* next scan starts Fresh.
ScanAbandoned ==
    /\ scan' = "Fresh"
    /\ scanFrom' = None
    /\ seen' = <<>>
    /\ scanCalls' = 0

\* ----------------------------------------------- Config and ConfigBuilder

\* Locators a caller passes to ConfigBuilder::path.
Paths == {"./db", "/dev/null", "/tmp/db"}

\* struct Config { path, read_only }
Configs == [path : Paths, read_only : BOOLEAN]

\* The Config of the tests: path("/dev/null"), read_only(false)
TestCfg == [path |-> "/dev/null", read_only |-> FALSE]

\* ConfigBuilder::new
ConfigBuilder_new == [path |-> None, read_only |-> None]

\* path() that keeps the locator of an earlier path() call.
ConfigBuilder_path_KeepsFirst(b, path_in) ==
    IF b.path = None THEN [b EXCEPT !.path = Some(path_in)] ELSE b

\* ConfigBuilder::path
ConfigBuilder_path(b, path_in) == [b EXCEPT !.path = Some(path_in)]

\* ConfigBuilder::read_only
ConfigBuilder_read_only(b, val_in) == [b EXCEPT !.read_only = Some(val_in)]

\* ConfigBuilder::build
ConfigBuilder_build(b) ==
    [path |-> IF b.path = None THEN "./db" ELSE b.path[1],
     read_only |-> IF b.read_only = None THEN FALSE ELSE b.read_only[1]]

BuilderInit ==
    /\ builder = ConfigBuilder_new
    /\ built = None
    /\ setArgs = [path |-> None, read_only |-> None, call |-> "new"]

\* ------------------------------------------------------------------ Batch

\* Batch::default
Batch_default == <<>>

\* Batch::insert
Batch_insert(ops, key_in, value_in) ==
    Append(ops, [op |-> "Insert", key |-> key_in, value |-> Some(value_in)])

\* remove() that drops the earlier mutations of the key it removes.
Batch_remove_MergesKey(ops, key_in) ==
    Append(SelectSeq(ops, LAMBDA dbm : dbm.key # key_in),
           [op |-> "Remove", key |-> key_in, value |-> None])

\* Batch::remove
Batch_remove(ops, key_in) ==
    Append(ops, [op |-> "Remove", key |-> key_in, value |-> None])

BatchInit ==
    /\ acc = Batch_default
    /\ accCalls = <<>>

\* ----------------------------------------------------------------- Driver

\* The heap holds one record per Box<MemDb> allocated: struct MemDb { db }.

\* Names of the handles a caller holds (the tester's database ids).
HandleNames == {"db1", "db2"}

\* start_db() that hands out the box it allocated first again.
MemDriver_start_db_SharedBox(boxes, config) ==
    IF boxes = <<>>
    THEN [heap |-> <<[db |-> EmptyMap]>>, box |-> 1]
    ELSE [heap |-> boxes, box |-> 1]

\* MemDriver::start_db: Box::new(MemDb { db: HashMap::new() }); the Config is
\* not looked at.
MemDriver_start_db(boxes, config) ==
    [heap |-> Append(boxes, [db |-> EmptyMap]), box |-> Len(boxes) + 1]

\* No box allocated, no handle returned yet.
DriverInit ==
    /\ heap = <<>>
    /\ handles = [name \in HandleNames |-> None]
    /\ caller = "db1"

\* The tester is not running.
TesterIdle == tester = [n |-> 0, step |-> 0, status |-> 0, body |-> "", ok |-> TRUE]

\* MemDriver::start_db: a fresh handle on an empty map
Init ==
    /\ db = EmptyMap
    /\ order = None
    /\ lastOp = Call("start_db", "", "", None, NoBatch, Ok(TRUE))
    /\ scan = "Fresh"
    /\ scanFrom = None
    /\ seen = <<>>
    /\ scanCalls = 0

\* db.put(key, val)
Put(key, val) ==
    LET r == MemDb_put(db, key, val) IN
    /\ db' = r.db
    /\ order' = None
    /\ lastOp' = Call("put", key, val, None, NoBatch, r.ret)
    /\ ScanAbandoned
    /\ OnlyDb

\* db.del(key)
Del(key) ==
    LET r == MemDb_del(db, key) IN
    /\ db' = r.db
    /\ order' = None
    /\ lastOp' = Call("del", key, "", None, NoBatch, r.ret)
    /\ ScanAbandoned
    /\ OnlyDb

\* db.get(key)
Get(key) ==
    /\ lastOp' = Call("get", key, "", None, NoBatch, MemDb_get(db, key))
    /\ UNCHANGED <<db, order, scanVars>>
    /\ OnlyDb

\* db.clear()
Clear ==
    LET r == MemDb_clear(db) IN
    /\ db' = r.db
    /\ order' = None
    /\ lastOp' = Call("clear", "", "", None, NoBatch, r.ret)
    /\ ScanAbandoned
    /\ OnlyDb

\* db.apply_batch(&batch)
ApplyBatch(batch) ==
    LET r == MemDb_apply_batch(db, batch) IN
    /\ db' = r.db
    /\ order' = None
    /\ lastOp' = Call("apply_batch", "", "", None, BatchSummary(batch), r.ret)
    /\ ScanAbandoned
    /\ OnlyDb

\* db.iter_keys(start_key), outside a scan
IterKeys(start_key) ==
    \E ord \in MapKeys(order, db) :
        /\ order' = Some(ord)
        /\ lastOp' = Call("iter_keys", "", "", start_key, NoBatch,
                          Ok(MemDb_iter_keys(ord, start_key)))
        /\ UNCHANGED <<db, scanVars>>
        /\ OnlyDb

StartKeys == {None} \cup {Some(k) : k \in Keys}

Next ==
    \/ \E key \in Keys, val \in Vals : Put(key, val)
    \/ \E key \in Keys : Del(key)
    \/ \E key \in Keys : Get(key)
    \/ Clear
    \/ \E batch \in Batches : ApplyBatch(batch)
    \/ \E start_key \in StartKeys : IterKeys(start_key)

\* Everything but the handle's configuration, as it is before any call.
InitRest == Init /\ BuilderInit /\ BatchInit /\ DriverInit /\ TesterIdle

\* The handle as the tests open it: start_db(TestCfg).
InitTest == InitRest /\ cfg = TestCfg

Spec == InitTest /\ [][Next]_vars

\* The configurations start_db may be handed for the handle.
HandleCfgs == {[TestCfg EXCEPT !.read_only = ro] : ro \in BOOLEAN}

\* The handle opened read-write or read-only.
InitAnyCfg == InitRest /\ cfg \in HandleCfgs

RoSpec == InitAnyCfg /\ [][Next]_vars

\* ------------------------------------------------------- the caller's scan

\* First call of a scan: iter_keys(None), or iter_keys(Some(c)) for a scan
\* taken up again from a cursor c the caller kept.
ScanStart(start_key) ==
    /\ scan \in {"Fresh", "Exhausted"}
    /\ \E ord \in MapKeys(order, db) :
        LET r == MemDb_iter_keys(ord, start_key) IN
        /\ order' = Some(ord)
        /\ lastOp' = Call("iter_keys", "", "", start_key, NoBatch, Ok(r))
        /\ scan' = IF r.list_end THEN "Exhausted" ELSE "Paginating"
        /\ scanFrom' = start_key
        /\ seen' = r.keys
        /\ scanCalls' = 1
        /\ UNCHANGED db
        /\ OnlyDb

\* Next call of a scan: iter_keys(Some(last key of the previous page)).
ScanResume ==
    /\ scan = "Paginating"
    /\ seen # <<>>
    /\ \E ord \in MapKeys(order, db) :
        LET start_key == Some(seen[Len(seen)])
            r == MemDb_iter_keys(ord, start_key)
        IN  /\ order' = Some(ord)
            /\ lastOp' = Call("iter_keys", "", "", start_key, NoBatch, Ok(r))
            /\ scan' = IF r.list_end THEN "Exhausted" ELSE "Paginating"
            /\ seen' = seen \o r.keys
            /\ scanCalls' = scanCalls + 1
            /\ UNCHANGED <<db, scanFrom>>
            /\ OnlyDb

ScanNext ==
    \/ \E key \in Keys, val \in Vals : Put(key, val)
    \/ \E key \in Keys : Del(key)
    \/ \E start_key \in StartKeys : ScanStart(start_key)
    \/ ScanResume

\* The caller of a scan keeps calling until a page has list_end = true.
ScanSpec == InitTest /\ [][ScanNext]_vars /\ WF_vars(ScanResume)

\* ------------------------------------------------- a ConfigBuilder in use

OnlyBuilder == UNCHANGED <<dbVars, cfg, batchVars, driverVars, tester>>

\* let b = ConfigBuilder::new()
BuilderNew ==
    /\ builder' = ConfigBuilder_new
    /\ setArgs' = [path |-> None, read_only |-> None, call |-> "new"]
    /\ UNCHANGED built
    /\ OnlyBuilder

\* b.path(path_in)
BuilderPath(path_in) ==
    /\ builder' = ConfigBuilder_path(builder, path_in)
    /\ setArgs' = [setArgs EXCEPT !.path = Some(path_in), !.call = "path"]
    /\ UNCHANGED built
    /\ OnlyBuilder

\* b.read_only(val_in)
BuilderReadOnly(val_in) ==
    /\ builder' = ConfigBuilder_read_only(builder, val_in)
    /\ setArgs' = [setArgs EXCEPT !.read_only = Some(val_in), !.call = "read_only"]
    /\ UNCHANGED built
    /\ OnlyBuilder

\* b.build(): takes &self
BuilderBuild ==
    /\ built' = Some(ConfigBuilder_build(builder))
    /\ setArgs' = [setArgs EXCEPT !.call = "build"]
    /\ UNCHANGED builder
    /\ OnlyBuilder

BuilderNext ==
    \/ BuilderNew
    \/ \E path_in \in Paths : BuilderPath(path_in)
    \/ \E val_in \in BOOLEAN : BuilderReadOnly(val_in)
    \/ BuilderBuild

BuilderSpec == InitTest /\ [][BuilderNext]_vars

\* ------------------------------------------------------- a Batch being built

OnlyBatch == UNCHANGED <<dbVars, cfg, builderVars, driverVars, tester>>

\* let batch = Batch::default()
BatchDefault ==
    /\ acc' = Batch_default
    /\ accCalls' = <<>>
    /\ OnlyBatch

\* batch.insert(key_in, value_in)
BatchInsert(key_in, value_in) ==
    /\ Len(accCalls) < MaxCalls
    /\ acc' = Batch_insert(acc, key_in, value_in)
    /\ accCalls' = Append(accCalls, <<"insert", key_in, value_in>>)
    /\ OnlyBatch

\* batch.remove(key_in)
BatchRemove(key_in) ==
    /\ Len(accCalls) < MaxCalls
    /\ acc' = Batch_remove(acc, key_in)
    /\ accCalls' = Append(accCalls, <<"remove", key_in>>)
    /\ OnlyBatch

BatchNext ==
    \/ BatchDefault
    \/ \E key_in \in Keys, value_in \in Vals : BatchInsert(key_in, value_in)
    \/ \E key_in \in Keys : BatchRemove(key_in)

BatchSpec == InitTest /\ [][BatchNext]_vars

\* ------------------------------------------- two handles from one driver

OnlyDriver == UNCHANGED <<dbVars, cfg, builderVars, batchVars, tester>>

\* The MemDb a handle points at.
BoxOf(name) == heap[handles[name][1]]

\* The heap after a call on the handle left its MemDb with the map m.
Written(name, m) == [heap EXCEPT ![handles[name][1]] = [db |-> m]]

\* Batches of at most one mutation.
OneOpBatches == SeqsUpTo(Mutations, 1)

\* let h = driver.start_db(config)
StartDb(name, config) ==
    /\ handles[name] = None
    /\ LET r == MemDriver_start_db(heap, config) IN
       /\ heap' = r.heap
       /\ handles' = [handles EXCEPT ![name] = Some(r.box)]
    /\ caller' = name
    /\ OnlyDriver

\* h.put(key, val)
HandlePut(name, key, val) ==
    /\ handles[name] # None
    /\ heap' = Written(name, MemDb_put(BoxOf(name).db, key, val).db)
    /\ caller' = name
    /\ UNCHANGED handles
    /\ OnlyDriver

\* h.del(key)
HandleDel(name, key) ==
    /\ handles[name] # None
    /\ heap' = Written(name, MemDb_del(BoxOf(name).db, key).db)
    /\ caller' = name
    /\ UNCHANGED handles
    /\ OnlyDriver

\* h.clear()
HandleClear(name) ==
    /\ handles[name] # None
    /\ heap' = Written(name, MemDb_clear(BoxOf(name).db).db)
    /\ caller' = name
    /\ UNCHANGED handles
    /\ OnlyDriver

\* h.apply_batch(&batch)
HandleApplyBatch(name, batch) ==
    /\ handles[name] # None
    /\ heap' = Written(name, MemDb_apply_batch(BoxOf(name).db, batch).db)
    /\ caller' = name
    /\ UNCHANGED handles
    /\ OnlyDriver

\* h.get(key): takes &self
HandleGet(name, key) ==
    /\ handles[name] # None
    /\ caller' = name
    /\ UNCHANGED <<heap, handles>>
    /\ OnlyDriver

\* h.iter_keys(start_key): takes &self
HandleIterKeys(name, start_key) ==
    /\ handles[name] # None
    /\ caller' = name
    /\ UNCHANGED <<heap, handles>>
    /\ OnlyDriver

TwoNext ==
    \/ \E name \in HandleNames, config \in HandleCfgs : StartDb(name, config)
    \/ \E name \in HandleNames, key \in Keys, val \in Vals : HandlePut(name, key, val)
    \/ \E name \in HandleNames, key \in Keys : HandleDel(name, key)
    \/ \E name \in HandleNames : HandleClear(name)
    \/ \E name \in HandleNames, batch \in OneOpBatches : HandleApplyBatch(name, batch)
    \/ \E name \in HandleNames, key \in Keys : HandleGet(name, key)
    \/ \E name \in HandleNames, start_key \in StartKeys : HandleIterKeys(name, start_key)

TwoSpec == InitTest /\ [][TwoNext]_vars

\* What get and iter_keys answer on a handle: a value per key, and per
\* order in which the map may enumerate its keys, a KeyList per start key.
View(name) ==
    IF handles[name] = None THEN None
    ELSE Some([get |-> [key \in Keys |-> MemDb_get(BoxOf(name).db, key)],
               iter_keys |->
                   {[start_key \in StartKeys |-> MemDb_iter_keys(ord, start_key)] :
                       ord \in MapKeys(None, BoxOf(name).db)}])

\* ------------------------------------------- the HTTP server and its tester

\* GET /api/{db_id}/{key}
Rest_GET(m, key) ==
    LET r == MemDb_get(m, key) IN
    IF r[1] = "Ok" /\ r[2] # None
    THEN [db |-> m, status |-> 200, body |-> r[2][1]]
    ELSE [db |-> m, status |-> 404, body |-> ""]

\* PUT /api/{db_id}/{key} with the value as body
Rest_PUT(m, key, body) ==
    LET r == MemDb_put(m, key, body) IN
    [db |-> r.db, status |-> IF r.ret[1] = "Ok" THEN 200 ELSE 500, body |-> ""]

\* DELETE /api/{db_id}/{key}
Rest_DELETE(m, key) ==
    LET r == MemDb_del(m, key) IN
    [db |-> r.db, status |-> IF r.ret = Ok(TRUE) THEN 200 ELSE 404, body |-> ""]

\* A clean, empty server: one database per id, each from start_db.
ServerInit ==
    LET first == MemDriver_start_db(<<>>, TestCfg)
        second == MemDriver_start_db(first.heap, TestCfg)
    IN  /\ heap = second.heap
        /\ handles = [name \in HandleNames |->
                         IF name = "db1" THEN Some(first.box) ELSE Some(second.box)]
        /\ caller = "db1"

\* format!("db{}", n)
DbId(n) == "db" \o ToString(n)

\* format!("helloworld {}", db_id)
TestValue(db_id) == "helloworld " \o db_id

\* The key of the tester's url: basepath followed by 1.
TesterKey == "1"

\* The requests of post_get_put_get in order, each with the status its
\* assert_eq! expects and whether the body is compared with test_value.
Requests ==
    << [method |-> "GET",    status |-> 404, body |-> FALSE],
       [method |-> "DELETE", status |-> 404, body |-> FALSE],
       [method |-> "PUT",    status |-> 200, body |-> FALSE],
       [method |-> "GET",    status |-> 200, body |-> TRUE],
       [method |-> "DELETE", status |-> 200, body |-> FALSE],
       [method |-> "GET",    status |-> 404, body |-> FALSE],
       [method |-> "DELETE", status |-> 404, body |-> FALSE] >>

\* main() enters its loop with n = 1.
TesterInit == tester = [n |-> 1, step |-> 0, status |-> 0, body |-> "", ok |-> TRUE]

OnlyServer == UNCHANGED <<dbVars, cfg, builderVars, batchVars>>

\* The next request of post_get_put_get and the assert on its response.  A
\* failed assert panics: the tester stops with ok = FALSE.
TesterRequest ==
    /\ tester.ok
    /\ tester.n \in 1..2
    /\ tester.step < Len(Requests)
    /\ LET db_id == DbId(tester.n)
           req == Requests[tester.step + 1]
           m == BoxOf(db_id).db
           resp == CASE req.method = "GET" -> Rest_GET(m, TesterKey)
                     [] req.method = "PUT" -> Rest_PUT(m, TesterKey, TestValue(db_id))
                     [] req.method = "DELETE" -> Rest_DELETE(m, TesterKey)
       IN  /\ heap' = Written(db_id, resp.db)
           /\ caller' = db_id
           /\ tester' = [n |-> tester.n,
                         step |-> tester.step + 1,
                         status |-> resp.status,
                         body |-> resp.body,
                         ok |-> /\ resp.status = req.status
                                /\ req.body => resp.body = TestValue(db_id)]
    /\ UNCHANGED handles
    /\ OnlyServer

\* for n in 1..3: post_get_put_get returned, the loop moves on.
TesterLoop ==
    /\ tester.ok
    /\ tester.n \in 1..2
    /\ tester.step = Len(Requests)
    /\ tester' = [tester EXCEPT !.n = tester.n + 1, !.step = 0]
    /\ UNCHANGED driverVars
    /\ OnlyServer

\* Another client stores a value under a key of its own.
OtherPut(db_id, key, body) ==
    /\ heap' = Written(db_id, Rest_PUT(BoxOf(db_id).db, key, body).db)
    /\ caller' = db_id
    /\ UNCHANGED <<handles, tester>>
    /\ OnlyServer

\* Another client deletes a key of its own.
OtherDelete(db_id, key) ==
    /\ heap' = Written(db_id, Rest_DELETE(BoxOf(db_id).db, key).db)
    /\ caller' = db_id
    /\ UNCHANGED <<handles, tester>>
    /\ OnlyServer

TesterNext ==
    \/ TesterRequest
    \/ TesterLoop
    \/ \E db_id \in HandleNames, key \in Keys, body \in Vals : OtherPut(db_id, key, body)
    \/ \E db_id \in HandleNames, key \in Keys : OtherDelete(db_id, key)

InitServer ==
    /\ Init /\ cfg = TestCfg /\ BuilderInit /\ BatchInit
    /\ ServerInit /\ TesterInit

TesterSpec == InitServer /\ [][TesterNext]_vars

\* ----------------------------------------------------------------- claims

Range(s) == {s[i] : i \in 1..Len(s)}

Min(a, b) == IF a <= b THEN a ELSE b

\* The place of key k in the enumeration ord (k is in ord).
Position(ord, k) == CHOOSE i \in 1..Len(ord) : ord[i] = k

\* The call is a mutation that touches key k.
Touches(call, k) ==
    \/ call.op \in {"put", "del"} /\ call.key = k
    \/ call.op = "clear"
    \/ call.op = "apply_batch" /\ k \in call.batch.mentions

\* The call is a put of k or a batch holding an Insert of k.
InsertsKey(call, k) ==
    \/ call.op = "put" /\ call.key = k
    \/ call.op = "apply_batch" /\ k \in call.batch.inserts

\* The page and the flag the last call, an iter_keys, returned.
LastPage == lastOp.ret[2].keys

LastListEnd == lastOp.ret[2].list_end

\* C1: put(k, v) returns Ok(true) and binds k to v; a call that is no mutation
\* touching k leaves get(k) as it was; and get(k) returns the binding.  So
\* from a put(k, v) on, every get(k) returns Some(v) until the next put, del,
\* clear or batch that touches k.
C1_PutThenGet ==
    [][\A k \in Keys :
          /\ (lastOp'.op = "put" /\ lastOp'.key = k)
                => (lastOp'.ret = Ok(TRUE) /\ MapGet(db', k) = Some(lastOp'.val))
          /\ ~Touches(lastOp', k) => MapGet(db', k) = MapGet(db, k)
          /\ (lastOp'.op = "get" /\ lastOp'.key = k) => lastOp'.ret = Ok(MapGet(db, k))
      ]_vars

\* A put has just replaced nothing of the other bindings: k is bound to the
\* value put, next to another bound key.
C1_Witness ==
    /\ lastOp.op = "put"
    /\ MapGet(db, lastOp.key) = Some(lastOp.val)
    /\ Cardinality(DOMAIN db) >= 2

\* C2: del(k) returns Ok(true) iff k is bound just before the call (a get(k)
\* there would return Some), Ok(false) otherwise; a del(k) right after a
\* del(k) returns Ok(false).
C2_DelReportsBinding ==
    [][lastOp'.op = "del" =>
          /\ lastOp'.ret = Ok(lastOp'.key \in DOMAIN db)
          /\ lastOp'.ret = Ok(MemDb_get(db, lastOp'.key) # Ok(None))
          /\ (lastOp.op = "del" /\ lastOp.key = lastOp'.key) => lastOp'.ret = Ok(FALSE)
      ]_vars

\* A del has found a binding and says so.
C2_Witness == lastOp.op = "del" /\ lastOp.ret = Ok(TRUE)

\* C3: after del(k), bound before or not, k is unbound; an unbound k stays
\* unbound over every call that is no put of k and no batch with an Insert of
\* k; and get of an unbound key returns None.
C3_DelThenAbsent ==
    [][\A k \in Keys :
          /\ (lastOp'.op = "del" /\ lastOp'.key = k) => MapGet(db', k) = None
          /\ (MapGet(db, k) = None /\ ~InsertsKey(lastOp', k)) => MapGet(db', k) = None
          /\ (lastOp'.op = "get" /\ lastOp'.key = k /\ MapGet(db, k) = None)
                => lastOp'.ret = Ok(None)
      ]_vars

\* A del has acted on a store that holds other keys, and its key is unbound.
C3_Witness ==
    /\ lastOp.op = "del"
    /\ lastOp.key \notin DOMAIN db
    /\ DOMAIN db # {}

\* C4: after a successful apply_batch(B), every key the batch mentions has the
\* value its last mutation in B asks for (Some(v) for Insert, None for
\* Remove), and every other key has its value from before the batch.
C4_BatchLastWriterWins ==
    [][(lastOp'.op = "apply_batch" /\ lastOp'.ret = Ok(TRUE)) =>
          \A k \in Keys :
              MapGet(db', k) = IF k \in lastOp'.batch.mentions
                               THEN lastOp'.batch.effect[k]
                               ELSE MapGet(db, k)
      ]_vars

\* A batch succeeded in which a key was first inserted and last removed, while
\* another key was left with a value.
C4_Witness ==
    /\ lastOp.op = "apply_batch"
    /\ lastOp.ret = Ok(TRUE)
    /\ \E k \in lastOp.batch.inserts : lastOp.batch.effect[k] = None
    /\ DOMAIN db # {}

\* C5: an apply_batch that does not complete successfully leaves every key
\* with its value from before the batch.
C5_BatchAllOrNothing ==
    [][(lastOp'.op = "apply_batch" /\ lastOp'.ret # Ok(TRUE)) => db' = db]_vars

\* C6: a page of iter_keys holds at most MAX_ITER_KEYS keys.
C6_PageBound ==
    lastOp.op = "iter_keys" => Len(LastPage) <= MAX_ITER_KEYS

\* C7: iter_keys returns list_end = true iff no key follows the last key of the
\* page in the enumeration order (for an empty page: iff no key follows the
\* cursor, or the store is empty when there is no cursor).
C7_ListEndIffExhausted ==
    (lastOp.op = "iter_keys"
        /\ (lastOp.start # None /\ LastPage = <<>> => lastOp.start[1] \in DOMAIN db))
    => LET ord == order[1]
           remaining ==
               IF LastPage # <<>> THEN Len(ord) - Position(ord, LastPage[Len(LastPage)])
               ELSE IF lastOp.start = None THEN Len(ord)
               ELSE Len(ord) - Position(ord, lastOp.start[1])
       IN  LastListEnd <=> (remaining = 0)

\* C8: a scan from iter_keys(None) over an unchanged key set makes at most one
\* call per key and one more, never returns a key twice or a key that is not
\* bound, and once Exhausted has returned every key; and a scan that is
\* Paginating does not stay so for ever.
C8_ScanSafety ==
    (scan # "Fresh" /\ scanFrom = None) =>
        /\ scanCalls <= Cardinality(DOMAIN db) + 1
        /\ Len(seen) = Cardinality(Range(seen))
        /\ Range(seen) \subseteq DOMAIN db
        /\ scan = "Exhausted" => Range(seen) = DOMAIN db

C8_ScanVisitsEachKeyOnce ==
    /\ []C8_ScanSafety
    /\ (scan = "Paginating") ~> (scan # "Paginating")

\* A scan from None is Exhausted over a store of more than MAX_ITER_KEYS keys.
C8_Witness ==
    /\ scan = "Exhausted"
    /\ scanFrom = None
    /\ Cardinality(DOMAIN db) > MAX_ITER_KEYS
    /\ Len(seen) = Cardinality(DOMAIN db)

\* C9: for a bound key c, iter_keys(Some(c)) returns the keys that follow c in
\* the enumeration order, from c's successor on, without a gap, up to the page
\* limit; neither c nor a key before c is in the page.
C9_PageFollowsCursor ==
    (lastOp.op = "iter_keys" /\ lastOp.start # None /\ lastOp.start[1] \in DOMAIN db)
    => LET ord == order[1]
           p == Position(ord, lastOp.start[1])
       IN  /\ LastPage = SubSeq(ord, p + 1, Min(p + MAX_ITER_KEYS, Len(ord)))
           /\ \A i \in 1..p : ord[i] \notin Range(LastPage)

\* iter_keys was given a cursor that has a key before it, and returned a key.
C9_Witness ==
    /\ lastOp.op = "iter_keys"
    /\ lastOp.start # None
    /\ lastOp.start[1] \in DOMAIN db
    /\ Position(order[1], lastOp.start[1]) >= 2
    /\ LastPage # <<>>

\* C10: clear() returns Ok(true) and leaves no binding; an empty store stays
\* empty over every call that is no put and no batch with an Insert; and on an
\* empty store get returns None and iter_keys(None) an empty page with
\* list_end = true.
C10_ClearEmpties ==
    [][/\ lastOp'.op = "clear" => (lastOp'.ret = Ok(TRUE) /\ DOMAIN db' = {})
       /\ (DOMAIN db = {} /\ \A k \in Keys : ~InsertsKey(lastOp', k)) => DOMAIN db' = {}
       /\ (DOMAIN db = {} /\ lastOp'.op = "get") => lastOp'.ret = Ok(None)
       /\ (DOMAIN db = {} /\ lastOp'.op = "iter_keys" /\ lastOp'.start = None)
             => lastOp'.ret = Ok([keys |-> <<>>, list_end |-> TRUE])
      ]_vars

\* A clear has acted and the store is empty.
C10_Witness == lastOp.op = "clear" /\ DOMAIN db = {}

\* C15: no call with well-formed arguments returns Err or panics: put, clear
\* and apply_batch (of a batch whose Inserts carry values) return Ok(true), del
\* returns Ok(true) or Ok(false), get and iter_keys return Ok.
C15_AlwaysOk ==
    /\ lastOp.op \in {"put", "clear"} => lastOp.ret = Ok(TRUE)
    /\ (lastOp.op = "apply_batch" /\ lastOp.batch.valued) => lastOp.ret = Ok(TRUE)
    /\ lastOp.op = "del" => (lastOp.ret = Ok(TRUE) \/ lastOp.ret = Ok(FALSE))
    /\ lastOp.op \in {"get", "iter_keys"} => lastOp.ret[1] = "Ok"

\* A del of an unbound key has returned Ok(false).
C15_Witness == lastOp.op = "del" /\ lastOp.ret = Ok(FALSE)

\* C17: iter_keys(Some(c)) for a key c that is not bound returns an empty page
\* with list_end = true, whatever else the store holds.
C17_UnboundCursorEndsScan ==
    (lastOp.op = "iter_keys" /\ lastOp.start # None /\ lastOp.start[1] \notin DOMAIN db)
    => (lastOp.ret = Ok([keys |-> <<>>, list_end |-> TRUE]))

\* iter_keys was given an unbound cursor on a store that holds keys.
C17_Witness ==
    /\ lastOp.op = "iter_keys"
    /\ lastOp.start # None
    /\ lastOp.start[1] \notin DOMAIN db
    /\ DOMAIN db # {}

\* C18: a page with list_end = false holds exactly MAX_ITER_KEYS keys, and every
\* page holds only keys that are bound, each at most once.
C18_PageShape ==
    lastOp.op = "iter_keys" =>
        /\ ~LastListEnd => Len(LastPage) = MAX_ITER_KEYS
        /\ Range(LastPage) \subseteq DOMAIN db
        /\ Cardinality(Range(LastPage)) = Len(LastPage)

\* iter_keys has returned a page with list_end = false.
C18_Witness == lastOp.op = "iter_keys" /\ ~LastListEnd

\* C19: get and iter_keys leave the store as it is; put(k, v) and del(k) leave
\* the binding of every key but k as it is; apply_batch(B) leaves the binding
\* of every key B does not mention as it is.
C19_Frame ==
    [][/\ lastOp'.op \in {"get", "iter_keys"} => db' = db
       /\ lastOp'.op \in {"put", "del"} =>
             \A k \in Keys \ {lastOp'.key} : MapGet(db', k) = MapGet(db, k)
       /\ lastOp'.op = "apply_batch" =>
             \A k \in Keys \ lastOp'.batch.mentions : MapGet(db', k) = MapGet(db, k)
      ]_vars

\* A batch has acted next to a bound key it does not mention.
C19_Witness ==
    /\ lastOp.op = "apply_batch"
    /\ lastOp.batch.mentions # {}
    /\ \E k \in (DOMAIN db) \ lastOp.batch.mentions : TRUE

\* C11: on a handle that start_db returned for a Config with read_only = true,
\* every put, del, clear and apply_batch answers an error and leaves the store
\* as it was.
C11_ReadOnlyRejects ==
    [][ (cfg.read_only /\ lastOp'.op \in {"put", "del", "clear", "apply_batch"})
            => (lastOp'.ret[1] = "Err" /\ db' = db) ]_vars

\* C12: a handle start_db returns answers get with None for every key and
\* iter_keys with an empty, ended list; and a call on one handle changes no
\* answer of get or iter_keys on the other handle.
C12_HandlesIsolated ==
    [][ /\ \A name \in HandleNames \ {caller'} : View(name)' = View(name)
        /\ \A name \in HandleNames :
               (handles[name] = None /\ handles'[name] # None)
                   => View(name)' =
                          Some([get |-> [key \in Keys |-> Ok(None)],
                                iter_keys |->
                                    {[start_key \in StartKeys |->
                                         [keys |-> <<>>, list_end |-> TRUE]]}]) ]_vars

C12_Witness ==
    /\ handles["db1"] # None /\ handles["db2"] # None
    /\ caller = "db1"
    /\ DOMAIN BoxOf("db1").db # {}
    /\ DOMAIN BoxOf("db2").db = {}

\* C13: against a server whose databases start empty, the tester's requests
\* GET, DELETE, PUT, GET, DELETE, GET, DELETE on one key are answered 404,
\* 404, 200, 200 with the body that was PUT, 200, 404, 404, for db1 and for
\* db2, so no assert of the tester fails.
C13_TesterRoundTrip ==
    /\ tester.ok
    /\ tester.step \in 1..7 =>
           /\ tester.status = <<404, 404, 200, 200, 200, 404, 404>>[tester.step]
           /\ tester.step = 4 => tester.body = TestValue(DbId(tester.n))

C13_Witness == tester.n = 2 /\ tester.step = 7 /\ tester.status = 404

\* C14: build() returns the path of the last path() call, "./db" if there
\* was none, and the read_only of the last read_only() call, false if there
\* was none; it leaves the builder as it is, and a second build() right after
\* returns an equal Config.
C14_BuildReadsLastSetters ==
    [][ setArgs'.call = "build" =>
            /\ builder' = builder
            /\ built' = Some([path |-> IF setArgs.path = None THEN "./db"
                                       ELSE setArgs.path[1],
                              read_only |-> IF setArgs.read_only = None THEN FALSE
                                            ELSE setArgs.read_only[1]])
            /\ setArgs.call = "build" => built' = built ]_vars

C14_Witness ==
    /\ setArgs.call = "build"
    /\ setArgs.path # None /\ setArgs.read_only = None
    /\ built # None /\ built[1].path = "/tmp/db" /\ ~built[1].read_only

\* C16: the ops of a Batch are its insert and remove calls in call order, one
\* mutation per call: Insert with Some(value) for insert, Remove with no
\* value for remove; a fresh Batch has no ops.
C16_OpsAreTheCalls ==
    /\ Len(acc) = Len(accCalls)
    /\ \A i \in 1..Len(accCalls) :
           IF accCalls[i][1] = "insert"
           THEN acc[i] = [op |-> "Insert", key |-> accCalls[i][2],
                          value |-> Some(accCalls[i][3])]
           ELSE acc[i] = [op |-> "Remove", key |-> accCalls[i][2], value |-> None]

C16_Witness ==
    /\ Len(acc) >= 2
    /\ acc[1].op = "Insert" /\ acc[2].op = "Remove" /\ acc[1].key = acc[2].key
====
